---- MODULE Spec2Model ----
(***************************************************************************)
(* Othello with minimax / alpha-beta search (src/main.py).                 *)
(*                                                                         *)
(* A board is a function board[row][col] over 0..NUM_COLS-1 with the cell  *)
(* values of the source: WHITE = 1, NOBODY = 0, BLACK = -1.  A move is the *)
(* tuple <<row, col>> (TLA+ tuples are 1-indexed: move[1] is the row).     *)
(* Lists of the source (legal_moves, DIRECTIONS) are sequences.            *)
(***************************************************************************)
EXTENDS Integers, Sequences, FiniteSets, TLC

NUM_COLS == 8
WHITE == 1
NOBODY == 0
BLACK == 0 - 1
TIE == 2
WIN_VAL == 100
WHITE_TO_PLAY == TRUE
DEMO_SEARCH_DEPTH == 5

\* float("inf") and sys.maxsize: only ever compared with scores, which lie in
\* -WIN_VAL..WIN_VAL; they are represented by the two largest 32-bit integers
\* of TLC, in the order of the source (sys.maxsize < inf).
Infinity == 2147483647
sys_maxsize == 2147483646

DIRECTIONS ==
  << <<0 - 1, 0 - 1>>, <<0 - 1, 0>>, <<0 - 1, 1>>, <<0, 0 - 1>>,
     <<0, 1>>, <<1, 0 - 1>>, <<1, 0>>, <<1, 1>> >>

Rows == 0 .. (NUM_COLS - 1)

\* np.zeros((NUM_COLS, NUM_COLS))
EmptyBoard == [r \in Rows |-> [c \in Rows |-> NOBODY]]

\* The cells in the order of the loops "for row ... for col ...".
AllCells ==
  [i \in 1 .. NUM_COLS * NUM_COLS |-> <<(i - 1) \div NUM_COLS, (i - 1) % NUM_COLS>>]

\* np.count_nonzero(board == color)
count_nonzero(board, color) ==
  Cardinality({i \in 1 .. NUM_COLS * NUM_COLS :
                 board[AllCells[i][1]][AllCells[i][2]] = color})

find_winner(board) ==
  LET white_count == count_nonzero(board, WHITE)
      black_count == count_nonzero(board, BLACK)
  IN  IF white_count > black_count THEN WHITE
      ELSE IF white_count < black_count THEN BLACK
      ELSE TIE

\* The while loop of captures_in_dir, from scan position (scan_row, scan_col).
RECURSIVE scan_dir(_, _, _, _, _, _)
scan_dir(board, scan_row, scan_col, row_delta, col_delta, friendly_color) ==
  IF ~(0 <= scan_row /\ scan_row < NUM_COLS /\ 0 <= scan_col /\ scan_col < NUM_COLS)
  THEN FALSE
  ELSE IF board[scan_row][scan_col] = NOBODY THEN FALSE
  ELSE IF board[scan_row][scan_col] = friendly_color THEN TRUE
  ELSE scan_dir(board, scan_row + row_delta, scan_col + col_delta,
                row_delta, col_delta, friendly_color)

\* captures_in_dir with the two colors exchanged.
captures_in_dir_mut(board, row, row_delta, col, col_delta, white_turn) ==
  IF (row + row_delta < 0) \/ (row + row_delta >= NUM_COLS) THEN FALSE
  ELSE IF (col + col_delta < 0) \/ (col + col_delta >= NUM_COLS) THEN FALSE
  ELSE LET enemy_color == IF white_turn THEN WHITE ELSE BLACK
           friendly_color == IF white_turn THEN BLACK ELSE WHITE
       IN  IF board[row + row_delta][col + col_delta] # enemy_color THEN FALSE
           ELSE scan_dir(board, row + 2 * row_delta, col + 2 * col_delta,
                         row_delta, col_delta, friendly_color)

captures_in_dir(board, row, row_delta, col, col_delta, white_turn) ==
  IF (row + row_delta < 0) \/ (row + row_delta >= NUM_COLS) THEN FALSE
  ELSE IF (col + col_delta < 0) \/ (col + col_delta >= NUM_COLS) THEN FALSE
  ELSE LET enemy_color == IF white_turn THEN BLACK ELSE WHITE
           friendly_color == IF white_turn THEN WHITE ELSE BLACK
       IN  IF board[row + row_delta][col + col_delta] # enemy_color THEN FALSE
           ELSE scan_dir(board, row + 2 * row_delta, col + 2 * col_delta,
                         row_delta, col_delta, friendly_color)

can_capture(board, row, col, white_turn) ==
  \E i \in 1 .. Len(DIRECTIONS) :
    captures_in_dir(board, row, DIRECTIONS[i][1], col, DIRECTIONS[i][2], white_turn)

\* Row-major scan of the board; the list of the empty cells that capture.
generate_legal_moves(board, white_turn) ==
  LET legal(cell) == /\ board[cell[1]][cell[2]] = NOBODY
                     /\ can_capture(board, cell[1], cell[2], white_turn)
  IN  SelectSeq(AllCells, legal)

\* flip_run that turns over only the piece next to the target.
flip_run_mut(board, flip_row, flip_col, row_delta, col_delta, enemy_color) ==
  IF board[flip_row][flip_col] = enemy_color
  THEN [board EXCEPT ![flip_row][flip_col] = 0 - enemy_color]
  ELSE board

\* The flipping while loop of capture: no bounds test, as in the source.
RECURSIVE flip_run(_, _, _, _, _, _)
flip_run(board, flip_row, flip_col, row_delta, col_delta, enemy_color) ==
  IF board[flip_row][flip_col] = enemy_color
  THEN flip_run([board EXCEPT ![flip_row][flip_col] = 0 - enemy_color],
                flip_row + row_delta, flip_col + col_delta,
                row_delta, col_delta, enemy_color)
  ELSE board

\* The for loop of capture over DIRECTIONS[i..]; each direction is tested on
\* the board as already modified by the earlier directions.
RECURSIVE capture_from(_, _, _, _, _)
capture_from(board, row, col, white_turn, i) ==
  IF i > Len(DIRECTIONS) THEN board
  ELSE LET row_delta == DIRECTIONS[i][1]
           col_delta == DIRECTIONS[i][2]
           enemy_color == IF white_turn THEN BLACK ELSE WHITE
       IN  IF captures_in_dir(board, row, row_delta, col, col_delta, white_turn)
           THEN capture_from(flip_run(board, row + row_delta, col + col_delta,
                                      row_delta, col_delta, enemy_color),
                             row, col, white_turn, i + 1)
           ELSE capture_from(board, row, col, white_turn, i + 1)

capture(board, row, col, white_turn) == capture_from(board, row, col, white_turn, 1)

\* play_move that captures without putting the piece on its square.
play_move_mut(board, move, white_turn) ==
  capture(board, move[1], move[2], white_turn)

play_move(board, move, white_turn) ==
  LET new_board == [board EXCEPT ![move[1]][move[2]] =
                                   IF white_turn THEN WHITE ELSE BLACK]
  IN  capture(new_board, move[1], move[2], white_turn)

evaluation_function(board) ==
  count_nonzero(board, WHITE) - count_nonzero(board, BLACK)

\* check_game_over that takes the game to be over only on a full board.
check_game_over_mut(board) ==
  IF count_nonzero(board, NOBODY) # 0 THEN NOBODY
  ELSE find_winner(board)

check_game_over(board) ==
  IF generate_legal_moves(board, TRUE) # << >> THEN NOBODY
  ELSE IF generate_legal_moves(board, FALSE) # << >> THEN NOBODY
  ELSE find_winner(board)

Min(a, b) == IF a < b THEN a ELSE b

RECURSIVE minimax_value(_, _, _, _, _)
RECURSIVE find_max_score(_, _, _, _, _, _)
RECURSIVE find_min_score(_, _, _, _, _, _)
RECURSIVE max_loop(_, _, _, _, _, _, _)
RECURSIVE min_loop(_, _, _, _, _, _, _)

\* max_step with the operands of the break test exchanged.
max_step_mut(maxScore, score, alpha, beta) ==
  LET maxScore1 == IF score > maxScore THEN score ELSE maxScore
      alpha1 == IF score > alpha THEN score ELSE alpha
  IN  [best |-> maxScore1, alpha |-> alpha1, beta |-> beta, stop |-> alpha1 <= beta]

\* The body of the for loop of find_max_score after score is known: the new
\* maxScore and alpha, and whether the loop is left by break.
max_step(maxScore, score, alpha, beta) ==
  LET maxScore1 == IF score > maxScore THEN score ELSE maxScore
      alpha1 == IF score > alpha THEN score ELSE alpha
  IN  [best |-> maxScore1, alpha |-> alpha1, beta |-> beta, stop |-> beta <= alpha1]

\* The for loop of find_max_score from legal_moves[i] on.
max_loop(maxScore, board, legal_moves, i, search_depth, alpha, beta) ==
  IF i > Len(legal_moves) THEN maxScore
  ELSE LET updated_board == play_move(board, legal_moves[i], TRUE)
           score == minimax_value(updated_board, FALSE, search_depth - 1, alpha, beta)
           upd == max_step(maxScore, score, alpha, beta)
       IN  IF upd.stop THEN upd.best
           ELSE max_loop(upd.best, board, legal_moves, i + 1, search_depth,
                         upd.alpha, upd.beta)

\* find_max_score whose forced pass costs a ply.
find_max_score_mut(maxScore, board, white_turn, search_depth, alpha, beta) ==
  LET legal_moves == generate_legal_moves(board, TRUE)
  IN  IF Len(legal_moves) = 0
      THEN minimax_value(board, FALSE, search_depth - 1, alpha, beta)
      ELSE max_loop(maxScore, board, legal_moves, 1, search_depth, alpha, beta)

find_max_score(maxScore, board, white_turn, search_depth, alpha, beta) ==
  LET legal_moves == generate_legal_moves(board, TRUE)
  IN  IF Len(legal_moves) = 0
      THEN minimax_value(board, FALSE, search_depth, alpha, beta)
      ELSE max_loop(maxScore, board, legal_moves, 1, search_depth, alpha, beta)

\* The body of the for loop of find_min_score after score is known.
min_step(minScore, score, alpha, beta) ==
  LET minScore1 == Min(minScore, score)
      beta1 == Min(beta, score)
  IN  [best |-> minScore1, alpha |-> alpha, beta |-> beta1, stop |-> beta1 <= alpha]

\* The for loop of find_min_score from legal_moves[i] on.
min_loop(minScore, board, legal_moves, i, search_depth, alpha, beta) ==
  IF i > Len(legal_moves) THEN minScore
  ELSE LET new_board == play_move(board, legal_moves[i], FALSE)
           score == minimax_value(new_board, TRUE, search_depth - 1, alpha, beta)
           upd == min_step(minScore, score, alpha, beta)
       IN  IF upd.stop THEN upd.best
           ELSE min_loop(upd.best, board, legal_moves, i + 1, search_depth,
                         upd.alpha, upd.beta)

find_min_score(minScore, board, white_turn, search_depth, alpha, beta) ==
  LET legal_moves == generate_legal_moves(board, FALSE)
  IN  IF Len(legal_moves) = 0
      THEN minimax_value(board, TRUE, search_depth, alpha, beta)
      ELSE min_loop(minScore, board, legal_moves, 1, search_depth, alpha, beta)

\* minimax_value that looks for the end of the game before the depth cutoff.
minimax_value_mut(board, white_turn, search_depth, alpha, beta) ==
  LET game_condition == check_game_over(board)
  IN  IF game_condition = TIE THEN 0
      ELSE IF game_condition = WHITE THEN WIN_VAL
      ELSE IF game_condition = BLACK THEN WIN_VAL * (0 - 1)
      ELSE IF search_depth = 0
      THEN count_nonzero(board, WHITE) - count_nonzero(board, BLACK)
      ELSE IF white_turn
           THEN find_max_score(sys_maxsize * (0 - 1), board, white_turn,
                               search_depth, alpha, beta)
           ELSE find_min_score(sys_maxsize, board, white_turn,
                               search_depth, alpha, beta)

minimax_value(board, white_turn, search_depth, alpha, beta) ==
  IF search_depth = 0
  THEN count_nonzero(board, WHITE) - count_nonzero(board, BLACK)
  ELSE LET game_condition == check_game_over(board)
       IN  IF game_condition = TIE THEN 0
           ELSE IF game_condition = WHITE THEN WIN_VAL
           ELSE IF game_condition = BLACK THEN WIN_VAL * (0 - 1)
           ELSE IF white_turn
                THEN find_max_score(sys_maxsize * (0 - 1), board, white_turn,
                                    search_depth, alpha, beta)
                ELSE find_min_score(sys_maxsize, board, white_turn,
                                    search_depth, alpha, beta)

starting_board ==
  [EmptyBoard EXCEPT ![3][3] = WHITE, ![3][4] = BLACK,
                     ![4][3] = BLACK, ![4][4] = WHITE]

(***************************************************************************)
(* Recorded games of play().  White is the program (best_move of lines     *)
(* 282-290), Black answers get_player_move: in GameRecordA with the        *)
(* choices 0,0,0,2,1,5,4,4,3,0,2,6,3,0,4,3,2,0,6,0,2,3,2,3,1,0,0,1,0,0 and *)
(* in GameRecordB always with the last choice offered.  An entry is        *)
(* <<white_turn, move>>; a skipped turn leaves no entry.                   *)
(***************************************************************************)
GameRecordA ==
  << <<TRUE, <<2, 4>>>>, <<FALSE, <<2, 3>>>>, <<TRUE, <<1, 2>>>>, <<FALSE, <<1, 3>>>>,
     <<TRUE, <<0, 2>>>>, <<FALSE, <<0, 1>>>>, <<TRUE, <<0, 0>>>>, <<FALSE, <<1, 5>>>>,
     <<TRUE, <<5, 3>>>>, <<FALSE, <<2, 2>>>>, <<TRUE, <<0, 6>>>>, <<FALSE, <<5, 5>>>>,
     <<TRUE, <<1, 1>>>>, <<FALSE, <<3, 5>>>>, <<TRUE, <<6, 6>>>>, <<FALSE, <<3, 2>>>>,
     <<TRUE, <<4, 6>>>>, <<FALSE, <<2, 5>>>>, <<TRUE, <<2, 6>>>>, <<FALSE, <<0, 3>>>>,
     <<TRUE, <<0, 4>>>>, <<FALSE, <<2, 1>>>>, <<TRUE, <<2, 0>>>>, <<FALSE, <<6, 3>>>>,
     <<TRUE, <<3, 1>>>>, <<FALSE, <<4, 5>>>>, <<TRUE, <<4, 2>>>>, <<FALSE, <<1, 7>>>>,
     <<TRUE, <<3, 6>>>>, <<FALSE, <<7, 7>>>>, <<TRUE, <<3, 7>>>>, <<FALSE, <<4, 7>>>>,
     <<TRUE, <<5, 7>>>>, <<FALSE, <<2, 7>>>>, <<TRUE, <<0, 7>>>>, <<FALSE, <<0, 5>>>>,
     <<TRUE, <<6, 2>>>>, <<FALSE, <<6, 1>>>>, <<TRUE, <<1, 6>>>>, <<FALSE, <<1, 4>>>>,
     <<TRUE, <<5, 4>>>>, <<FALSE, <<5, 1>>>>, <<TRUE, <<6, 0>>>>, <<FALSE, <<5, 2>>>>,
     <<TRUE, <<7, 0>>>>, <<FALSE, <<4, 1>>>>, <<TRUE, <<4, 0>>>>, <<FALSE, <<5, 6>>>>,
     <<TRUE, <<6, 7>>>>, <<FALSE, <<3, 0>>>>, <<TRUE, <<5, 0>>>>, <<FALSE, <<1, 0>>>>,
     <<TRUE, <<7, 1>>>>, <<FALSE, <<6, 4>>>>, <<TRUE, <<7, 4>>>>, <<FALSE, <<7, 2>>>>,
     <<TRUE, <<6, 5>>>>, <<FALSE, <<7, 3>>>>, <<FALSE, <<7, 5>>>>, <<TRUE, <<7, 6>>>> >>

GameRecordB ==
  << <<TRUE, <<2, 4>>>>, <<FALSE, <<4, 5>>>>, <<TRUE, <<5, 2>>>>, <<FALSE, <<4, 2>>>>,
     <<TRUE, <<3, 2>>>>, <<FALSE, <<6, 1>>>>, <<TRUE, <<4, 6>>>>, <<FALSE, <<2, 5>>>>,
     <<TRUE, <<2, 6>>>>, <<FALSE, <<5, 6>>>>, <<TRUE, <<7, 0>>>>, <<FALSE, <<4, 7>>>>,
     <<TRUE, <<6, 7>>>>, <<FALSE, <<6, 6>>>>, <<TRUE, <<6, 5>>>>, <<FALSE, <<7, 6>>>>,
     <<FALSE, <<7, 4>>>>, <<TRUE, <<6, 4>>>>, <<FALSE, <<5, 4>>>>, <<TRUE, <<3, 6>>>>,
     <<FALSE, <<4, 1>>>>, <<TRUE, <<3, 0>>>>, <<FALSE, <<6, 2>>>>, <<TRUE, <<7, 2>>>>,
     <<FALSE, <<4, 0>>>>, <<TRUE, <<5, 0>>>>, <<FALSE, <<2, 7>>>>, <<TRUE, <<5, 1>>>>,
     <<FALSE, <<2, 3>>>>, <<TRUE, <<1, 2>>>>, <<FALSE, <<6, 0>>>>, <<TRUE, <<1, 4>>>>,
     <<FALSE, <<7, 3>>>>, <<TRUE, <<6, 3>>>>, <<FALSE, <<7, 1>>>>, <<TRUE, <<7, 5>>>>,
     <<FALSE, <<5, 3>>>>, <<TRUE, <<3, 1>>>>, <<FALSE, <<5, 5>>>>, <<TRUE, <<3, 5>>>>,
     <<FALSE, <<7, 7>>>>, <<TRUE, <<3, 7>>>>, <<FALSE, <<5, 7>>>>, <<TRUE, <<1, 5>>>>,
     <<FALSE, <<2, 2>>>>, <<TRUE, <<1, 3>>>>, <<FALSE, <<2, 1>>>>, <<TRUE, <<1, 1>>>>,
     <<FALSE, <<2, 0>>>>, <<TRUE, <<1, 0>>>>, <<FALSE, <<0, 6>>>>, <<TRUE, <<0, 5>>>>,
     <<FALSE, <<1, 6>>>>, <<TRUE, <<0, 7>>>>, <<FALSE, <<0, 4>>>>, <<TRUE, <<0, 2>>>>,
     <<FALSE, <<1, 7>>>>, <<TRUE, <<0, 3>>>>, <<FALSE, <<0, 1>>>>, <<TRUE, <<0, 0>>>> >>


\* The board after the entries i..n of a record are played on board b, by
\* play_move; the replay stops at an entry that is not a legal move of its
\* side.
RECURSIVE ReplayFrom(_, _, _, _)
ReplayFrom(b, record, i, n) ==
  IF i > n THEN b
  ELSE IF \E k \in 1 .. Len(generate_legal_moves(b, record[i][1])) :
            generate_legal_moves(b, record[i][1])[k] = record[i][2]
       THEN ReplayFrom(play_move(b, record[i][2], record[i][1]), record, i + 1, n)
       ELSE b

\* Positions of the recorded games, named by the number of entries played.
GameA20 == ReplayFrom(starting_board, GameRecordA, 1, 20)
GameA40 == ReplayFrom(GameA20, GameRecordA, 21, 40)
GameA54 == ReplayFrom(GameA40, GameRecordA, 41, 54)
GameA56 == ReplayFrom(GameA54, GameRecordA, 55, 56)
GameA58 == ReplayFrom(GameA56, GameRecordA, 57, 58)
GameA60 == ReplayFrom(GameA58, GameRecordA, 59, 60)
GameB16 == ReplayFrom(starting_board, GameRecordB, 1, 16)
GameB36 == ReplayFrom(GameB16, GameRecordB, 17, 36)
GameB55 == ReplayFrom(GameB36, GameRecordB, 37, 55)
GameB57 == ReplayFrom(GameB55, GameRecordB, 56, 57)

\* Bounds of the explored part of a game.  SpecGame follows the first
\* MaxMoves placements after the starting position and the positions with at
\* most MaxMoves empty cells; the loop of play() is followed for its first
\* MaxOpening placements and from MaxPlaced empty cells on.
MaxMoves == 4
MaxPlaced == 6
MaxOpening == 4

VARIABLES
  board,      \* the board of the game / the board argument of a call
  pc,         \* control position
  placed,     \* number of pieces placed since starting_board()
  best_move,  \* play(): local best_move
  best_val,   \* play(): local best_val
  winner,     \* play(): winner = find_winner(board) once reported
  call,       \* the call of a function under test, with its result
  stack,      \* frames of the running minimax_value calls, innermost last
  ret,        \* value returned by the minimax_value call that returned last
  cutoffs,    \* number of times a search loop was left by break
  entered,    \* play(): pieces placed when the current loop iteration began
  depth       \* number of minimax_value calls that have not returned

vars == <<board, pc, placed, best_move, best_val, winner, call, stack, ret, cutoffs,
          entered, depth>>

None == << >>
NoCall == [op |-> "none"]
InitialEmpty == NUM_COLS * NUM_COLS - 4

Pieces(b) == count_nonzero(b, WHITE) + count_nonzero(b, BLACK)

\* Values of the variables a specification does not use.
IdlePlay == best_move = None /\ best_val = 0 /\ winner = NOBODY /\ entered = 0
IdleCall == call = NoCall
IdleSearch == stack = << >> /\ ret = 0 /\ cutoffs = 0 /\ depth = 0

(***************************************************************************)
(* SpecGame: the game tree.  From a position the side to move plays any of *)
(* its legal moves (the loops of find_max_score / find_min_score, the      *)
(* choice of get_player_move), passes when it has none but the game is not *)
(* over, and the game stops when check_game_over names a result.           *)
(***************************************************************************)
GameSeeds == { starting_board, GameA56, GameB57 }

InitGame ==
  /\ board \in GameSeeds
  /\ placed = Pieces(board) - 4
  /\ pc = "white"
  /\ IdlePlay /\ IdleCall /\ IdleSearch

InGameWindow(n, bound) == n < bound \/ InitialEmpty - n <= bound

GameMove ==
  /\ pc \in {"white", "black"}
  /\ check_game_over(board) = NOBODY
  /\ InGameWindow(placed, MaxMoves)
  /\ LET white_turn == (pc = "white")
         legal_moves == generate_legal_moves(board, white_turn)
     IN  /\ Len(legal_moves) # 0
         /\ \E i \in 1 .. Len(legal_moves) :
              board' = play_move(board, legal_moves[i], white_turn)
  /\ placed' = placed + 1
  /\ pc' = IF pc = "white" THEN "black" ELSE "white"
  /\ UNCHANGED <<best_move, best_val, winner, call, stack, ret, cutoffs, entered, depth>>

GamePass ==
  /\ pc \in {"white", "black"}
  /\ check_game_over(board) = NOBODY
  /\ Len(generate_legal_moves(board, pc = "white")) = 0
  /\ pc' = IF pc = "white" THEN "black" ELSE "white"
  /\ UNCHANGED <<board, placed, best_move, best_val, winner, call, stack, ret, cutoffs, entered, depth>>

GameEnd ==
  /\ pc \in {"white", "black"}
  /\ check_game_over(board) # NOBODY
  /\ pc' = "over"
  /\ winner' = find_winner(board)
  /\ UNCHANGED <<board, placed, best_move, best_val, call, stack, ret, cutoffs, entered, depth>>

NextGame == GameMove \/ GamePass \/ GameEnd

SpecGame == InitGame /\ [][NextGame]_vars

\* C8: in every board reached from the starting position by legal moves (a
\* side being skipped only when it has no legal move) every cell holds one of
\* NOBODY / WHITE / BLACK, the number of pieces is 4 plus the number of moves
\* played and at most 64, no occupied cell becomes empty again, and every
\* move turns at least one piece of the opponent into the mover's color.
C8_BoardInvariant ==
  /\ [](/\ \A r \in Rows, c \in Rows : board[r][c] \in {NOBODY, WHITE, BLACK}
        /\ Pieces(board) = 4 + placed
        /\ Pieces(board) <= NUM_COLS * NUM_COLS)
  /\ [][/\ \A r \in Rows, c \in Rows : board[r][c] # NOBODY => board'[r][c] # NOBODY
        /\ placed' # placed =>
             LET mover == IF pc = "white" THEN WHITE ELSE BLACK
             IN  /\ placed' = placed + 1
                 /\ \E r \in Rows, c \in Rows :
                      board[r][c] = 0 - mover /\ board'[r][c] = mover]_vars

\* A finished game that filled the board: 60 moves played, 64 pieces.
C8_Witness ==
  pc = "over" /\ placed = InitialEmpty /\ Pieces(board) = NUM_COLS * NUM_COLS

(***************************************************************************)
(* SpecEval: the functions of the module called on their own.  The board   *)
(* is drawn from EvalBoards (minimax_value is reached with any board       *)
(* through eval_at_depth / read_boardstring), one call is made with        *)
(* arguments drawn from small sets, and the call is recorded with its      *)
(* result.                                                                 *)
(***************************************************************************)
MaxDepth == 3

\* Values alpha and beta are drawn from.
WindowBounds == {0 - Infinity, 0 - 3, 2, Infinity}

\* The board holding WHITE on the cells whites, BLACK on the cells blacks.
BoardOf(whites, blacks) ==
  [r \in Rows |-> [c \in Rows |->
     IF <<r, c>> \in whites THEN WHITE
     ELSE IF <<r, c>> \in blacks THEN BLACK ELSE NOBODY]]

\* The board with the two colors exchanged.
SwapColors(b) == [r \in Rows |-> [c \in Rows |-> 0 - b[r][c]]]

EvalBoards ==
  { starting_board,
    GameA54,               \* 6 empty cells, passes ahead
    GameA58,               \* White has no move, Black has
    SwapColors(GameA58),   \* Black has no move, White has
    GameB16,               \* mid-game, White has no move
    SwapColors(GameB16),
    GameA60,               \* full board, White won
    BoardOf({<<0, 0>>}, {<<7, 7>>}),       \* game over with equal counts
    BoardOf({<<2, 2>>}, {<<0, 0>>, <<5, 5>>}),   \* game over, Black ahead
    BoardOf({<<0, 0>>, <<0, 7>>}, {<<0, 1>>, <<0, 2>>, <<0, 6>>}) }

InitEval ==
  /\ board \in EvalBoards
  /\ pc = "input"
  /\ placed = 0
  /\ IdlePlay /\ IdleCall /\ IdleSearch

\* minimax_value(board, white_turn, search_depth, alpha, beta)
Evaluate ==
  /\ pc = "input"
  /\ \E white_turn \in BOOLEAN, search_depth \in 0 .. MaxDepth,
        alpha \in WindowBounds, beta \in WindowBounds :
       call' = [op |-> "minimax_value", white_turn |-> white_turn,
                search_depth |-> search_depth, alpha |-> alpha, beta |-> beta,
                value |-> minimax_value(board, white_turn, search_depth, alpha, beta)]
  /\ pc' = "returned"
  /\ UNCHANGED <<board, placed, best_move, best_val, winner, stack, ret, cutoffs, entered, depth>>

\* play_move(board, move, white_turn), for any cell of the board
ApplyMove ==
  /\ pc = "input"
  /\ \E white_turn \in BOOLEAN, row \in Rows, col \in Rows :
       call' = [op |-> "play_move", white_turn |-> white_turn, move |-> <<row, col>>,
                new_board |-> play_move(board, <<row, col>>, white_turn)]
  /\ pc' = "returned"
  /\ UNCHANGED <<board, placed, best_move, best_val, winner, stack, ret, cutoffs, entered, depth>>

\* generate_legal_moves(board, white_turn)
ListMoves ==
  /\ pc = "input"
  /\ \E white_turn \in BOOLEAN :
       call' = [op |-> "generate_legal_moves", white_turn |-> white_turn,
                legal_moves |-> generate_legal_moves(board, white_turn)]
  /\ pc' = "returned"
  /\ UNCHANGED <<board, placed, best_move, best_val, winner, stack, ret, cutoffs, entered, depth>>

NextEval == Evaluate \/ ApplyMove \/ ListMoves

SpecEval == InitEval /\ [][NextEval]_vars

IsLegal(b, move, white_turn) ==
  \E k \in 1 .. Len(generate_legal_moves(b, white_turn)) :
    generate_legal_moves(b, white_turn)[k] = move

HasMove(b, white_turn) == Len(generate_legal_moves(b, white_turn)) # 0

OnBoard(row, col) == row \in Rows /\ col \in Rows

\* C2: when the side to move has no legal move and the other side has one,
\* minimax_value for the side to move equals minimax_value for the other
\* side on the same board at the SAME depth and with the same window.
C2_ForcedPass ==
  (/\ call.op = "minimax_value"
   /\ ~HasMove(board, call.white_turn)
   /\ HasMove(board, ~call.white_turn))
  => call.value = minimax_value(board, ~call.white_turn, call.search_depth,
                                call.alpha, call.beta)

\* A pass of White at depth >= 1 whose value is not the value one ply less
\* would give.
C2_Witness ==
  /\ call.op = "minimax_value"
  /\ call.white_turn
  /\ call.search_depth >= 1
  /\ ~HasMove(board, TRUE)
  /\ HasMove(board, FALSE)
  /\ call.value # minimax_value(board, FALSE, call.search_depth - 1,
                                call.alpha, call.beta)

\* Distance from (row, col) to the first cell of the given color in the
\* direction (row_delta, col_delta); 0 when the direction holds none.
FirstOwn(b, row, col, row_delta, col_delta, color) ==
  LET own == {k \in 1 .. NUM_COLS :
                /\ OnBoard(row + k * row_delta, col + k * col_delta)
                /\ b[row + k * row_delta][col + k * col_delta] = color}
  IN  IF own = {} THEN 0 ELSE CHOOSE k \in own : \A j \in own : k <= j

\* Whether the rules turn cell (r, c) over for a move: the cell lies in a
\* direction that captures on board b, strictly between the target and the
\* first cell of the mover's color.
IsEnclosed(b, move, white_turn, r, c) ==
  \E i \in 1 .. Len(DIRECTIONS), k \in 1 .. NUM_COLS :
    /\ r = move[1] + k * DIRECTIONS[i][1]
    /\ c = move[2] + k * DIRECTIONS[i][2]
    /\ captures_in_dir(b, move[1], DIRECTIONS[i][1], move[2], DIRECTIONS[i][2], white_turn)
    /\ k < FirstOwn(b, move[1], move[2], DIRECTIONS[i][1], DIRECTIONS[i][2],
                    IF white_turn THEN WHITE ELSE BLACK)

Enclosed(b, move, white_turn) ==
  {cell \in Rows \X Rows : IsEnclosed(b, move, white_turn, cell[1], cell[2])}

CapturingDirs(b, move, white_turn) ==
  {i \in 1 .. Len(DIRECTIONS) :
     captures_in_dir(b, move[1], DIRECTIONS[i][1], move[2], DIRECTIONS[i][2], white_turn)}

\* C3: for an empty target cell, play_move returns the input board with the
\* target set to the mover's color and exactly the enclosed opposing cells
\* of the capturing directions (judged on the input board) turned to the
\* mover's color; every other cell is unchanged.
C3_CaptureExact ==
  (call.op = "play_move" /\ board[call.move[1]][call.move[2]] = NOBODY)
  => LET color == IF call.white_turn THEN WHITE ELSE BLACK
     IN  \A r \in Rows, c \in Rows :
           call.new_board[r][c] =
             IF <<r, c>> = call.move
                  \/ IsEnclosed(board, call.move, call.white_turn, r, c)
             THEN color
             ELSE board[r][c]

\* A move onto an empty cell that captures in three directions or more and
\* turns over at least five pieces.
C3_Witness ==
  /\ call.op = "play_move"
  /\ board[call.move[1]][call.move[2]] = NOBODY
  /\ Cardinality(CapturingDirs(board, call.move, call.white_turn)) >= 3
  /\ Cardinality(Enclosed(board, call.move, call.white_turn)) >= 5
  /\ \E r \in Rows, c \in Rows :
       board[r][c] = NOBODY /\ <<r, c>> # call.move

MovesOf(call_rec) == {call_rec.legal_moves[k] : k \in 1 .. Len(call_rec.legal_moves)}

\* C4 as stated: on starting_board() the legal moves of Light are exactly
\* (2,3), (3,2), (4,5), (5,4).
C4_AsStated ==
  (call.op = "generate_legal_moves" /\ board = starting_board /\ call.white_turn)
  => MovesOf(call) = {<<2, 3>>, <<3, 2>>, <<4, 5>>, <<5, 4>>}

\* C4 amended: on starting_board() generate_legal_moves for Light returns
\* exactly the 4 moves (2,4), (3,5), (4,2), (5,3), in this order; the moves
\* (2,3), (3,2), (4,5), (5,4) are the legal moves of Dark.
C4_StartingMoves ==
  (call.op = "generate_legal_moves" /\ board = starting_board)
  => call.legal_moves =
       IF call.white_turn THEN << <<2, 4>>, <<3, 5>>, <<4, 2>>, <<5, 3>> >>
       ELSE << <<2, 3>>, <<3, 2>>, <<4, 5>>, <<5, 4>> >>

\* generate_legal_moves was called for Light on the starting board.
C4_Witness ==
  /\ call.op = "generate_legal_moves"
  /\ board = starting_board
  /\ call.white_turn
  /\ Len(call.legal_moves) = 4

\* C5 as stated: a move that is not legal for (board, side) is rejected and
\* never applied, so play_move yields no board on which the piece was placed.
C5_AsStated ==
  (call.op = "play_move" /\ ~IsLegal(board, call.move, call.white_turn))
  => call.new_board = board

\* C7: at depth 0 minimax_value is the piece differential, also on a board
\* where the game is over; at depth >= 1 on a board where neither side has a
\* legal move it is WIN_VAL, -WIN_VAL or 0 by the piece counts, whatever the
\* side to move and the window.
C7_BaseCases ==
  call.op = "minimax_value" =>
    LET whites == count_nonzero(board, WHITE)
        blacks == count_nonzero(board, BLACK)
    IN  /\ call.search_depth = 0 => call.value = whites - blacks
        /\ (call.search_depth >= 1 /\ ~HasMove(board, TRUE) /\ ~HasMove(board, FALSE))
           => call.value = IF whites > blacks THEN 100
                           ELSE IF blacks > whites THEN 0 - 100 ELSE 0

\* A depth-0 call on a finished game with unequal counts: the value is the
\* differential, not a win score.
C7_Witness ==
  /\ call.op = "minimax_value"
  /\ call.search_depth = 0
  /\ ~HasMove(board, TRUE) /\ ~HasMove(board, FALSE)
  /\ call.value \notin {0, 100, 0 - 100}

(***************************************************************************)
(* SpecSearch: one call of minimax_value run step by step.  stack holds    *)
(* the frames of the nested minimax_value calls (each with the locals of   *)
(* the find_max_score / find_min_score it runs), innermost last.  A frame  *)
(* is "entry" before its body has run, "pass" while it waits for the call  *)
(* of line 197 / 213, "loop" while it waits for the score of               *)
(* legal_moves[i] (line 201 / 218).  ret is the value being returned.      *)
(***************************************************************************)
SearchWindows ==
  { <<0 - Infinity, Infinity>>, <<0 - 3, 2>>, <<2, Infinity>>, <<0 - Infinity, 0 - 3>> }

NewFrame(b, white_turn, search_depth, alpha, beta) ==
  [board |-> b, white_turn |-> white_turn, search_depth |-> search_depth,
   alpha |-> alpha, beta |-> beta, at |-> "entry",
   legal_moves |-> << >>, i |-> 0, best |-> 0]

InitSearch ==
  /\ board \in EvalBoards
  /\ placed = 0
  /\ \E white_turn \in BOOLEAN, search_depth \in 0 .. MaxDepth, w \in SearchWindows :
       /\ call = [op |-> "minimax_value", white_turn |-> white_turn,
                  search_depth |-> search_depth, alpha |-> w[1], beta |-> w[2]]
       /\ stack = << NewFrame(board, white_turn, search_depth, w[1], w[2]) >>
  /\ depth = 1
  /\ pc = "call"
  /\ ret = 0
  /\ cutoffs = 0
  /\ IdlePlay

Top == stack[Len(stack)]

\* return v from the innermost call
Return(v) ==
  /\ stack' = SubSeq(stack, 1, Len(stack) - 1)
  /\ depth' = depth - 1
  /\ ret' = v
  /\ pc' = IF Len(stack) = 1 THEN "done" ELSE "return"

\* call minimax_value(b, white_turn, search_depth, alpha, beta) from the
\* innermost frame, which becomes frame
Call(frame, b, white_turn, search_depth, alpha, beta) ==
  /\ stack' = Append([stack EXCEPT ![Len(stack)] = frame],
                     NewFrame(b, white_turn, search_depth, alpha, beta))
  /\ depth' = depth + 1
  /\ pc' = "call"
  /\ ret' = ret

\* lines 239-240
SearchCutoff ==
  /\ pc = "call"
  /\ Top.search_depth = 0
  /\ Return(count_nonzero(Top.board, WHITE) - count_nonzero(Top.board, BLACK))
  /\ UNCHANGED <<board, placed, best_move, best_val, winner, call, cutoffs, entered>>

\* lines 241-247
SearchGameOver ==
  /\ pc = "call"
  /\ Top.search_depth # 0
  /\ LET game_condition == check_game_over(Top.board)
     IN  /\ game_condition # NOBODY
         /\ Return(IF game_condition = TIE THEN 0
                   ELSE IF game_condition = WHITE THEN WIN_VAL
                   ELSE WIN_VAL * (0 - 1))
  /\ UNCHANGED <<board, placed, best_move, best_val, winner, call, cutoffs, entered>>

\* lines 251-253 with 195-197, lines 256-258 with 211-213: no legal move
SearchPass ==
  /\ pc = "call"
  /\ Top.search_depth # 0
  /\ check_game_over(Top.board) = NOBODY
  /\ Len(generate_legal_moves(Top.board, Top.white_turn)) = 0
  /\ Call([Top EXCEPT !.at = "pass"],
          Top.board, ~Top.white_turn, Top.search_depth, Top.alpha, Top.beta)
  /\ UNCHANGED <<board, placed, best_move, best_val, winner, call, cutoffs, entered>>

\* lines 251-253 with 195-201, lines 256-258 with 211-218: first iteration
SearchFirstMove ==
  /\ pc = "call"
  /\ Top.search_depth # 0
  /\ check_game_over(Top.board) = NOBODY
  /\ LET legal_moves == generate_legal_moves(Top.board, Top.white_turn)
     IN  /\ Len(legal_moves) # 0
         /\ Call([Top EXCEPT !.at = "loop", !.legal_moves = legal_moves, !.i = 1,
                             !.best = IF Top.white_turn THEN sys_maxsize * (0 - 1)
                                      ELSE sys_maxsize],
                 play_move(Top.board, legal_moves[1], Top.white_turn),
                 ~Top.white_turn, Top.search_depth - 1, Top.alpha, Top.beta)
  /\ UNCHANGED <<board, placed, best_move, best_val, winner, call, cutoffs, entered>>

\* lines 197 / 213 and the return of lines 208 / 223, 254 / 259
SearchPassReturn ==
  /\ pc = "return"
  /\ Top.at = "pass"
  /\ Return(ret)
  /\ UNCHANGED <<board, placed, best_move, best_val, winner, call, cutoffs, entered>>

\* The loop body after the call of line 201 / 218 returned ret.
LoopStep ==
  IF Top.white_turn THEN max_step(Top.best, ret, Top.alpha, Top.beta)
  ELSE min_step(Top.best, ret, Top.alpha, Top.beta)

\* lines 202-207 / 219-222: break, then return
SearchBreak ==
  /\ pc = "return"
  /\ Top.at = "loop"
  /\ LoopStep.stop
  /\ Return(LoopStep.best)
  /\ cutoffs' = IF Top.i < Len(Top.legal_moves) THEN cutoffs + 1 ELSE cutoffs
  /\ UNCHANGED <<board, placed, best_move, best_val, winner, call, entered>>

\* lines 202-206 / 219-221 on the last move: the loop ends, then return
SearchLoopEnd ==
  /\ pc = "return"
  /\ Top.at = "loop"
  /\ ~LoopStep.stop
  /\ Top.i = Len(Top.legal_moves)
  /\ Return(LoopStep.best)
  /\ UNCHANGED <<board, placed, best_move, best_val, winner, call, cutoffs, entered>>

\* lines 202-206 / 219-221, then the next iteration's call
SearchNextMove ==
  /\ pc = "return"
  /\ Top.at = "loop"
  /\ ~LoopStep.stop
  /\ Top.i < Len(Top.legal_moves)
  /\ Call([Top EXCEPT !.i = Top.i + 1, !.best = LoopStep.best,
                      !.alpha = LoopStep.alpha, !.beta = LoopStep.beta],
          play_move(Top.board, Top.legal_moves[Top.i + 1], Top.white_turn),
          ~Top.white_turn, Top.search_depth - 1, LoopStep.alpha, LoopStep.beta)
  /\ UNCHANGED <<board, placed, best_move, best_val, winner, call, cutoffs, entered>>

NextSearch ==
  \/ SearchCutoff
  \/ SearchGameOver
  \/ SearchPass
  \/ SearchFirstMove
  \/ SearchPassReturn
  \/ SearchBreak
  \/ SearchLoopEnd
  \/ SearchNextMove

\* A step of a running search: a call is made or a call returns.  Every step
\* of NextSearch is one, and one is possible until the outermost call returns.
SearchStep ==
  /\ pc \in {"call", "return"}
  /\ depth' \in {depth - 1, depth + 1}

\* The interpreter runs a call to its end: a step that can be taken is taken.
SpecSearch == InitSearch /\ [][NextSearch]_vars /\ WF_depth(SearchStep)

SetMax(S) == CHOOSE x \in S : \A y \in S : y <= x
SetMin(S) == CHOOSE x \in S : \A y \in S : x <= y

\* Minimax without pruning: the same base cases, the same forced pass at the
\* same depth, every legal move of the side to move examined.
RECURSIVE ExhaustiveValue(_, _, _)
ExhaustiveValue(b, white_turn, search_depth) ==
  IF search_depth = 0 THEN count_nonzero(b, WHITE) - count_nonzero(b, BLACK)
  ELSE IF ~HasMove(b, TRUE) /\ ~HasMove(b, FALSE)
  THEN LET whites == count_nonzero(b, WHITE)
           blacks == count_nonzero(b, BLACK)
       IN  IF whites > blacks THEN WIN_VAL
           ELSE IF whites < blacks THEN 0 - WIN_VAL ELSE 0
  ELSE IF ~HasMove(b, white_turn) THEN ExhaustiveValue(b, ~white_turn, search_depth)
  ELSE LET legal_moves == generate_legal_moves(b, white_turn)
           values == {ExhaustiveValue(play_move(b, legal_moves[k], white_turn),
                                      ~white_turn, search_depth - 1) :
                        k \in 1 .. Len(legal_moves)}
       IN  IF white_turn THEN SetMax(values) ELSE SetMin(values)

\* C1: with the window (-infinity, +infinity) minimax_value returns the value
\* of the exhaustive minimax without pruning, for every board, side to move
\* and depth; this holds of the call run step by step and of minimax_value
\* evaluated as a function.
C1_AlphaBetaSound ==
  (pc = "done" /\ call.alpha = 0 - Infinity /\ call.beta = Infinity)
  => /\ ret = ExhaustiveValue(board, call.white_turn, call.search_depth)
     /\ ret = minimax_value(board, call.white_turn, call.search_depth,
                            call.alpha, call.beta)

\* A finished full-window search of depth 3 or more in which loops were left
\* by break with moves still unexamined.
C1_Witness ==
  /\ pc = "done"
  /\ call.alpha = 0 - Infinity /\ call.beta = Infinity
  /\ call.search_depth >= 3
  /\ cutoffs >= 2

\* C10: every call of minimax_value with depth >= 0 terminates; a forced-pass
\* call is made only on a board where the game is not over, at the same
\* depth for the other side, which then has a legal move and recurses with
\* depth - 1, so that no two pass calls follow one another and at most
\* 2 * depth + 1 calls are ever nested.
C10_SearchTerminates ==
  /\ [](/\ depth = Len(stack)
        /\ depth <= 2 * call.search_depth + 1
        /\ \A k \in 1 .. Len(stack) : stack[k].search_depth >= 0
        /\ \A k \in 1 .. Len(stack) - 1 :
             stack[k].at = "pass" =>
               /\ check_game_over(stack[k].board) = NOBODY
               /\ stack[k + 1].board = stack[k].board
               /\ stack[k + 1].white_turn = ~stack[k].white_turn
               /\ stack[k + 1].search_depth = stack[k].search_depth
               /\ HasMove(stack[k + 1].board, stack[k + 1].white_turn)
               /\ stack[k + 1].at # "pass"
               /\ k + 2 <= Len(stack) =>
                    stack[k + 2].search_depth = stack[k].search_depth - 1)
  /\ <>(pc = "done")

\* A chain of 2 * depth + 1 nested calls below a forced pass.
C10_Witness ==
  /\ pc = "call"
  /\ call.search_depth >= 2
  /\ depth = 2 * call.search_depth + 1
  /\ stack[1].at = "pass"

(***************************************************************************)
(* SpecPlay: the loop of play().  At the top of an iteration the loop      *)
(* condition check_game_over(board) == NOBODY is tested; White (the        *)
(* program) scores each of its legal moves and plays the best one, or is   *)
(* skipped; Black (the person at the keyboard) plays any of the offered    *)
(* moves, or is skipped; when the loop ends the winner is reported.        *)
(***************************************************************************)
\* The loop over legal_moves of play(), lines 284-290, from the i-th move on
\* with the best move and value found so far.
RECURSIVE choose_move(_, _, _, _, _)
choose_move(b, legal_moves, i, move, val) ==
  IF i > Len(legal_moves) THEN [best_move |-> move, best_val |-> val]
  ELSE LET new_board == play_move(b, legal_moves[i], TRUE)
           move_val == minimax_value(new_board, TRUE, DEMO_SEARCH_DEPTH,
                                     0 - Infinity, Infinity)
       IN  IF move_val > val
           THEN choose_move(b, legal_moves, i + 1, legal_moves[i], move_val)
           ELSE choose_move(b, legal_moves, i + 1, move, val)

\* Tops of the loop of play(): the start of a game, and two positions of the
\* recorded games with the values best_move and best_val have there.
PlaySeeds ==
  { [board |-> starting_board, best_move |-> None, best_val |-> 0],
    [board |-> GameA54, best_move |-> <<7, 1>>, best_val |-> 28],
    [board |-> GameB55, best_move |-> <<0, 7>>, best_val |-> 27] }

\* The part of the games that is followed: their first MaxOpening
\* placements, and their end from MaxPlaced empty cells on.
InPlayWindow(n) == n < MaxOpening \/ InitialEmpty - n <= MaxPlaced

InitPlay ==
  /\ \E seed \in PlaySeeds :
       /\ board = seed.board
       /\ best_move = seed.best_move
       /\ best_val = seed.best_val
  /\ placed = Pieces(board) - 4
  /\ entered = placed
  /\ pc = "top"
  /\ winner = NOBODY
  /\ IdleCall /\ IdleSearch

WhiteTurn ==
  /\ pc = "top"
  /\ check_game_over(board) = NOBODY
  /\ InPlayWindow(placed)
  /\ LET legal_moves == generate_legal_moves(board, TRUE)
     IN  /\ Len(legal_moves) # 0
         /\ \E chosen \in {choose_move(board, legal_moves, 1, None, 0 - Infinity)} :
              /\ best_move' = chosen.best_move
              /\ best_val' = chosen.best_val
              /\ board' = play_move(board, chosen.best_move, TRUE)
  /\ placed' = placed + 1
  /\ entered' = placed
  /\ pc' = "black"
  /\ UNCHANGED <<winner, call, stack, ret, cutoffs, depth>>

WhiteSkip ==
  /\ pc = "top"
  /\ check_game_over(board) = NOBODY
  /\ Len(generate_legal_moves(board, TRUE)) = 0
  /\ entered' = placed
  /\ pc' = "black"
  /\ UNCHANGED <<board, placed, best_move, best_val, winner, call, stack, ret, cutoffs, depth>>

BlackTurn ==
  /\ pc = "black"
  /\ InPlayWindow(placed)
  /\ LET legal_moves == generate_legal_moves(board, FALSE)
     IN  /\ Len(legal_moves) # 0
         /\ \E move_num \in 0 .. (Len(legal_moves) - 1) :
              board' = play_move(board, legal_moves[move_num + 1], FALSE)
  /\ placed' = placed + 1
  /\ pc' = "top"
  /\ UNCHANGED <<best_move, best_val, winner, call, stack, ret, cutoffs, entered, depth>>

BlackSkip ==
  /\ pc = "black"
  /\ Len(generate_legal_moves(board, FALSE)) = 0
  /\ pc' = "top"
  /\ UNCHANGED <<board, placed, best_move, best_val, winner, call, stack, ret, cutoffs,
                 entered, depth>>

\* The end of the loop when its condition looks at the moves of White only.
Finish_mut ==
  /\ pc = "top"
  /\ Len(generate_legal_moves(board, TRUE)) = 0
  /\ winner' = find_winner(board)
  /\ pc' = "over"
  /\ UNCHANGED <<board, placed, best_move, best_val, call, stack, ret, cutoffs, entered, depth>>

Finish ==
  /\ pc = "top"
  /\ check_game_over(board) # NOBODY
  /\ winner' = find_winner(board)
  /\ pc' = "over"
  /\ UNCHANGED <<board, placed, best_move, best_val, call, stack, ret, cutoffs, entered, depth>>

NextPlay == WhiteTurn \/ WhiteSkip \/ BlackTurn \/ BlackSkip \/ Finish

SpecPlay == InitPlay /\ [][NextPlay]_vars

\* The ends of the games, where every step of the loop is followed until
\* the winner is reported; the loop always takes its next step.
InitPlayEnd == InitPlay /\ InitialEmpty - placed <= MaxPlaced

\* A step of the loop: control leaves the top of an iteration or its Black
\* half.  Every step of NextPlay is one, and one is possible until the
\* winner is reported.
PlayStep ==
  /\ pc \in {"top", "black"}
  /\ pc' \in {"top", "black", "over"}
  /\ pc' # pc

SpecPlayEnd == InitPlayEnd /\ [][NextPlay]_vars /\ WF_pc(PlayStep)

\* The score the root gives a move when the opponent moves next with one ply
\* less to search.
OpponentScore(b, move) ==
  minimax_value(play_move(b, move, TRUE), FALSE, DEMO_SEARCH_DEPTH - 1,
                0 - Infinity, Infinity)

\* C6: at the root every legal move of White is scored by the minimax value of
\* the board after the move with the OPPONENT to move, at depth
\* DEMO_SEARCH_DEPTH - 1 and with the window (-infinity, +infinity); the move
\* played has the greatest score, and of the moves with that score it is the
\* first in row-major order.
C6_AsStated ==
  [][(pc = "top" /\ pc' = "black" /\ placed' # placed) =>
       LET legal_moves == generate_legal_moves(board, TRUE)
           scores == [k \in 1 .. Len(legal_moves) |-> OpponentScore(board, legal_moves[k])]
       IN  \E k \in 1 .. Len(legal_moves) :
             /\ best_move' = legal_moves[k]
             /\ best_val' = scores[k]
             /\ board' = play_move(board, legal_moves[k], TRUE)
             /\ \A j \in 1 .. Len(legal_moves) :
                  /\ scores[j] <= scores[k]
                  /\ j < k => scores[j] < scores[k]]_vars

\* C9: in play(), whatever moves are chosen, every iteration of the loop
\* places at least one piece (a side is skipped, placing nothing, only when
\* it has no legal move, and a placed piece is a legal move of its side), at
\* most 60 pieces are placed, the loop ends, and the winner is reported only
\* on a board where neither side has a legal move, as find_winner gives it.
C9_PlayTerminates ==
  /\ [](/\ placed <= InitialEmpty
        /\ entered <= placed
        /\ pc # "over" => winner = NOBODY
        /\ pc = "over" =>
             /\ ~HasMove(board, TRUE) /\ ~HasMove(board, FALSE)
             /\ winner = find_winner(board))
  /\ [][/\ (pc = "black" /\ pc' = "top") => placed' >= entered + 1
        /\ (pc' = "black" /\ pc = "top") => entered' = placed
        /\ placed' # placed =>
             /\ placed' = placed + 1
             /\ \E r \in Rows, c \in Rows :
                  /\ IsLegal(board, <<r, c>>, pc = "top")
                  /\ board' = play_move(board, <<r, c>>, pc = "top")
        /\ (pc \in {"top", "black"} /\ pc' \in {"top", "black"} /\ pc' # pc
           /\ placed' = placed) =>
             ~HasMove(board, pc = "top")]_vars
  /\ <>(pc = "over")

\* A finished game whose last iteration placed exactly one piece, the other
\* side having been skipped.
C9_Witness ==
  /\ pc = "over"
  /\ placed = entered + 1
  /\ winner = find_winner(board)
  /\ ~HasMove(board, TRUE) /\ ~HasMove(board, FALSE)

====
